---- MODULE Spec2Model ----
(***************************************************************************)
(* JobQueue: the worker pool (worker/pool.go), its buffered channel of job *)
(* identifiers and the in-memory store (store/store.go) it updates.         *)
(*                                                                         *)
(* One action per atomic step of the Go code.  A worker's processJob is    *)
(* split where another goroutine or the clock can come between two of its  *)
(* steps: receive from the channel, context.WithTimeout, UpdateStatus      *)
(* (running) with the start of the executor goroutine, the select, and the *)
(* final UpdateStatus.  Time is a discrete clock; a context is expired     *)
(* when the clock has reached its deadline.                                *)
(***************************************************************************)
EXTENDS Integers, Sequences, FiniteSets, TLC

\* ---------------------------------------------------------------- bounds

\* Submit is called as long as it has accepted fewer than MaxSubmits identifiers.
MaxSubmits == 2

\* The identifiers the collaborators use.
JobIDs == {"a", "b"}

\* ------------------------------------------------------- store/store.go

StatusQueued == "queued"
StatusRunning == "running"
StatusCompleted == "completed"
StatusFailed == "failed"
StatusCancelled == "cancelled"

Terminal == {StatusCompleted, StatusFailed, StatusCancelled}

\* ctx.Err().Error() of a context whose deadline has passed.
DeadlineExceeded == "context deadline exceeded"

\* What executeTask returns: nil, an error of its own, or (defaultExecuteTask,
\* after ctx.Done()) the wrapped context error.
ExecNil == "nil"
ExecError == "task error"
ExecCancelled == "cancelled: context deadline exceeded"

\* Save(job) with the record the collaborators create: status queued, no error.
NewJob(t) == [Status |-> StatusQueued, Error |-> "", UpdatedAt |-> t]

\* MemoryStore.Save: s.jobs[job.ID] = job
StoreSave(s, id, job) ==
    [x \in DOMAIN s \cup {id} |-> IF x = id THEN job ELSE s[x]]

\* Faulty variant of UpdateStatus: an empty error text leaves the text as it is.
UpdateStatusKeepsError(s, id, status, errMsg, t) ==
    IF id \in DOMAIN s
    THEN [s EXCEPT ![id] = [Status |-> status,
                            Error |-> IF errMsg = "" THEN s[id].Error ELSE errMsg,
                            UpdatedAt |-> t]]
    ELSE s

\* Faulty variant of UpdateStatus: an unknown identifier gets a record.
UpdateStatusUpsert(s, id, status, errMsg, t) ==
    [x \in DOMAIN s \cup {id} |->
        IF x = id THEN [Status |-> status, Error |-> errMsg, UpdatedAt |-> t] ELSE s[x]]

\* MemoryStore.UpdateStatus: not found leaves the map as it is.
UpdateStatus(s, id, status, errMsg, t) ==
    IF id \in DOMAIN s
    THEN [s EXCEPT ![id] = [Status |-> status, Error |-> errMsg, UpdatedAt |-> t]]
    ELSE s

\* ------------------------------------------------------- configurations

\* worker.Config values the pool is constructed with; NewPool takes them as
\* they are.
ValidConfigs ==
    { [NumWorkers |-> 1, QueueSize |-> 0, JobTimeout |-> 1],
      [NumWorkers |-> 1, QueueSize |-> 2, JobTimeout |-> 2],
      [NumWorkers |-> 2, QueueSize |-> 1, JobTimeout |-> 1] }

\* NewPool with any worker.Config, as main passes the flags on unchecked.
InvalidConfigs ==
    { [NumWorkers |-> 0, QueueSize |-> 1, JobTimeout |-> 1],
      [NumWorkers |-> 1, QueueSize |-> -1, JobTimeout |-> 1],
      [NumWorkers |-> 1, QueueSize |-> 1, JobTimeout |-> 0] }

\* Every worker some configuration starts.
AllWorkers == UNION {1..c.NumWorkers : c \in ValidConfigs \cup InvalidConfigs}

VARIABLES
    cfg,        \* Pool.cfg
    life,       \* "running", "stopping" (Stop waits), "stopped", "failed" (NewPool panicked)
    jobs,       \* Pool.jobs: the channel's buffer
    closed,     \* Pool.jobs is closed
    store,      \* MemoryStore.jobs: id -> record
    wpc,        \* each worker goroutine's position
    wjob,       \* processJob's jobID
    deadline,   \* processJob's ctx deadline
    exec,       \* the executor goroutine of the job in progress
    done,       \* processJob's done channel (capacity 1)
    abandoned,  \* executor goroutines still running whose worker has moved on
    now,        \* the clock
    lastSubmit, \* outcome of the latest Submit call
    accepted    \* id -> number of Submit calls that returned true

\* The state of what runs beside the pool, a record of its variables: nothing
\* (the pool is driven by Submit and Stop alone), handler.CreateJob, an
\* observer of the channel, or, with the server not running, the store alone
\* (its records as objects), the to-do Store or scraper.Run.
VARIABLE prog

poolVars == <<cfg, life, jobs, closed, store, wpc, wjob, deadline, exec, done,
              abandoned, now, lastSubmit, accepted>>

\* Everything the pool's own steps leave alone.
outside == <<prog>>

vars == <<poolVars, outside>>

Workers == 1..cfg.NumWorkers

NoJobID == ""

\* ------------------------------------------------------- worker/pool.go

\* NewPool: make(chan string, cfg.QueueSize) panics on a negative size;
\* otherwise cfg.NumWorkers goroutines are started, whatever the values.
NewPool(c) ==
    /\ cfg = c
    /\ life = IF c.QueueSize < 0 THEN "failed" ELSE "running"
    /\ jobs = <<>>
    /\ closed = FALSE
    /\ wpc = [w \in 1..c.NumWorkers |-> IF c.QueueSize < 0 THEN "exited" ELSE "loop"]
    /\ wjob = [w \in 1..c.NumWorkers |-> NoJobID]
    /\ deadline = [w \in 1..c.NumWorkers |-> 0]
    /\ exec = [w \in 1..c.NumWorkers |-> "none"]
    /\ done = [w \in 1..c.NumWorkers |-> "empty"]
    /\ abandoned = 0

InitRest ==
    /\ store = << >>
    /\ now = 0
    /\ lastSubmit = "none"
    /\ accepted = [id \in JobIDs |-> 0]

\* Nothing runs beside the pool.
ProgramsIdle == prog = [name |-> "none"]

Init ==
    /\ (\E c \in ValidConfigs : NewPool(c)) /\ InitRest
    /\ ProgramsIdle

RECURSIVE Sum(_, _)
Sum(f, S) == IF S = {} THEN 0 ELSE LET x == CHOOSE y \in S : TRUE
                                   IN f[x] + Sum(f, S \ {x})

\* Submit calls that returned true so far.
NumAccepted == Sum(accepted, JobIDs)

Waiting == {w \in Workers : wpc[w] = "waiting"}

\* Faulty variant of HasRoom: the capacity check is off by one.
HasRoomOffByOne == Len(jobs) <= cfg.QueueSize

\* make(chan string, cfg.QueueSize): a send finds room while the buffer holds
\* fewer than QueueSize values.
HasRoom == Len(jobs) < cfg.QueueSize

\* case p.jobs <- jobID with a receiver blocked on the channel: the value goes
\* straight to that worker, not through the buffer.
Handoff(id) ==
    /\ \E w \in Waiting :
         /\ wpc' = [wpc EXCEPT ![w] = "got"]
         /\ wjob' = [wjob EXCEPT ![w] = id]
    /\ lastSubmit' = "true"
    /\ accepted' = [accepted EXCEPT ![id] = @ + 1]
    /\ UNCHANGED <<jobs, store>>

\* Faulty variant of Enqueue: the identifier is put in front of the buffer.
EnqueueAtFront(id) ==
    /\ jobs' = <<id>> \o jobs
    /\ lastSubmit' = "true"
    /\ accepted' = [accepted EXCEPT ![id] = @ + 1]
    /\ UNCHANGED <<wpc, wjob, store>>

\* case p.jobs <- jobID with room in the buffer: return true
Enqueue(id) ==
    /\ jobs' = Append(jobs, id)
    /\ lastSubmit' = "true"
    /\ accepted' = [accepted EXCEPT ![id] = @ + 1]
    /\ UNCHANGED <<wpc, wjob, store>>

\* Faulty variant of Reject: Submit itself marks the rejected job failed.
RejectMarksFailed(id) ==
    /\ lastSubmit' = "false"
    /\ store' = UpdateStatus(store, id, StatusFailed, "queue is full", now)
    /\ UNCHANGED <<jobs, wpc, wjob, accepted>>

\* Faulty variant of Reject: the default branch returns true.
RejectReturnsTrue(id) ==
    /\ lastSubmit' = "true"
    /\ accepted' = [accepted EXCEPT ![id] = @ + 1]
    /\ UNCHANGED <<jobs, wpc, wjob, store>>

\* default: return false
Reject(id) ==
    /\ lastSubmit' = "false"
    /\ UNCHANGED <<jobs, wpc, wjob, accepted, store>>

\* p.jobs <- jobID on a closed channel: panic "send on closed channel"
SendOnClosed(id) ==
    /\ lastSubmit' = "panic"
    /\ UNCHANGED <<jobs, wpc, wjob, accepted, store>>

\* Pool.Submit: select { case p.jobs <- jobID: true; default: false }.
\* The send looks at the channel in Go's order: closed, then a blocked
\* receiver, then room in the buffer.
Send(id) ==
    /\ IF closed THEN SendOnClosed(id)
       ELSE IF Waiting # {} THEN Handoff(id)
       ELSE IF HasRoom THEN Enqueue(id)
       ELSE Reject(id)
    /\ UNCHANGED <<cfg, life, closed, deadline, exec, done, abandoned, now>>

\* A collaborator calls Pool.Submit.
Submit(id) ==
    /\ life # "failed"
    /\ NumAccepted < MaxSubmits
    /\ Send(id)
    /\ UNCHANGED outside

\* Pool.Stop, first half: close(p.jobs); the blocked receivers wake up.
StopCall ==
    /\ life = "running"
    /\ life' = "stopping"
    /\ closed' = TRUE
    /\ wpc' = [w \in Workers |-> IF wpc[w] = "waiting" THEN "loop" ELSE wpc[w]]
    /\ UNCHANGED <<cfg, jobs, store, wjob, deadline, exec, done, abandoned, now, lastSubmit, accepted>>
    /\ UNCHANGED outside

\* Faulty variant of StopReturn: Stop does not wait for the workers.
StopReturnNoWait ==
    /\ life = "stopping"
    /\ life' = "stopped"
    /\ UNCHANGED <<cfg, jobs, closed, store, wpc, wjob, deadline, exec, done,
                   abandoned, now, lastSubmit, accepted>>
    /\ UNCHANGED outside

\* Pool.Stop, second half: p.wg.Wait() returns when every worker has called
\* wg.Done().
StopReturn ==
    /\ life = "stopping"
    /\ \A w \in Workers : wpc[w] = "exited"
    /\ life' = "stopped"
    /\ UNCHANGED <<cfg, jobs, closed, store, wpc, wjob, deadline, exec, done,
                   abandoned, now, lastSubmit, accepted>>
    /\ UNCHANGED outside

\* Faulty variant of Receive: the loop does not end when the channel is closed.
ReceiveIgnoresClose(w) ==
    /\ wpc[w] = "loop"
    /\ IF jobs # <<>>
       THEN /\ wjob' = [wjob EXCEPT ![w] = Head(jobs)]
            /\ jobs' = Tail(jobs)
            /\ wpc' = [wpc EXCEPT ![w] = "got"]
       ELSE /\ wpc' = [wpc EXCEPT ![w] = "waiting"]
            /\ UNCHANGED <<jobs, wjob>>
    /\ UNCHANGED <<cfg, life, closed, store, deadline, exec, done, abandoned, now,
                   lastSubmit, accepted>>
    /\ UNCHANGED outside

\* Faulty variant of Dequeue: a worker that finds the buffer empty ends its loop.
DequeueExitsWhenEmpty(w) ==
    /\ wpc[w] = "loop"
    /\ IF jobs # <<>>
       THEN /\ wjob' = [wjob EXCEPT ![w] = Head(jobs)]
            /\ jobs' = Tail(jobs)
            /\ wpc' = [wpc EXCEPT ![w] = "got"]
       ELSE /\ wpc' = [wpc EXCEPT ![w] = "exited"]
            /\ UNCHANGED <<jobs, wjob>>
    /\ UNCHANGED <<cfg, life, closed, store, deadline, exec, done, abandoned, now, lastSubmit, accepted>>

\* runWorker: for jobID := range p.jobs.  The receive takes the head of the
\* buffer, ends the loop when the channel is closed and empty (wg.Done), and
\* blocks otherwise.
Dequeue(w) ==
    /\ wpc[w] = "loop"
    /\ IF jobs # <<>>
       THEN /\ wjob' = [wjob EXCEPT ![w] = Head(jobs)]
            /\ jobs' = Tail(jobs)
            /\ wpc' = [wpc EXCEPT ![w] = "got"]
       ELSE /\ wpc' = [wpc EXCEPT ![w] = IF closed THEN "exited" ELSE "waiting"]
            /\ UNCHANGED <<jobs, wjob>>
    /\ UNCHANGED <<cfg, life, closed, store, deadline, exec, done, abandoned, now, lastSubmit, accepted>>

Receive(w) == Dequeue(w) /\ UNCHANGED outside

\* processJob: ctx, cancel := context.WithTimeout(Background, cfg.JobTimeout)
Begin(w) ==
    /\ wpc[w] = "got"
    /\ deadline' = [deadline EXCEPT ![w] = now + cfg.JobTimeout]
    /\ wpc' = [wpc EXCEPT ![w] = "ctx"]
    /\ UNCHANGED <<cfg, life, jobs, closed, store, wjob, exec, done, abandoned, now, lastSubmit, accepted>>
    /\ UNCHANGED outside

\* Faulty variant of MarkRunning: the executor is started without the record being
\* marked running.
MarkRunningNoUpdate(w) ==
    /\ wpc[w] = "ctx"
    /\ exec' = [exec EXCEPT ![w] = "running"]
    /\ wpc' = [wpc EXCEPT ![w] = "started"]
    /\ UNCHANGED <<cfg, life, jobs, closed, store, wjob, deadline, done, abandoned,
                   now, lastSubmit, accepted>>
    /\ UNCHANGED outside

\* processJob: UpdateStatus(jobID, running, ""); done := make(chan error, 1);
\* go func() { done <- executeTask(ctx, jobID) }()
StartJob(w) ==
    /\ wpc[w] = "ctx"
    /\ store' = UpdateStatus(store, wjob[w], StatusRunning, "", now)
    /\ exec' = [exec EXCEPT ![w] = "running"]
    /\ wpc' = [wpc EXCEPT ![w] = "started"]
    /\ UNCHANGED <<cfg, life, jobs, closed, wjob, deadline, done, abandoned, now, lastSubmit, accepted>>

MarkRunning(w) == StartJob(w) /\ UNCHANGED outside

Expired(w) == now >= deadline[w]

\* What the executor of w's job can return now: success or an error; once
\* ctx.Done() is closed the error is the one defaultExecuteTask wraps.
ExecResults(w) ==
    IF Expired(w) THEN {ExecNil, ExecCancelled} ELSE {ExecNil, ExecError}

\* The executor goroutine: done <- executeTask(ctx, jobID).  The send never
\* blocks (capacity 1).  A worker blocked in the select is woken with the
\* done case.
ExecReturn(w) ==
    /\ exec[w] = "running"
    /\ \E r \in ExecResults(w) : done' = [done EXCEPT ![w] = r]
    /\ exec' = [exec EXCEPT ![w] = IF Expired(w) THEN "late" ELSE "intime"]
    /\ wpc' = [wpc EXCEPT ![w] = IF @ = "parked" THEN "wokenDone" ELSE @]
    /\ UNCHANGED <<cfg, life, jobs, closed, store, wjob, deadline, abandoned, now, lastSubmit, accepted>>
    /\ UNCHANGED outside

\* Faulty variant of LateReturn: the executor's result is written to a
\* cancelled record.
LateReturnWrites ==
    /\ abandoned > 0
    /\ abandoned' = abandoned - 1
    /\ \E id \in DOMAIN store :
          /\ store[id].Status = StatusCancelled
          /\ store' = UpdateStatus(store, id, StatusCompleted, "", now)
    /\ UNCHANGED <<cfg, life, jobs, closed, wpc, wjob, deadline, exec, done,
                   now, lastSubmit, accepted>>

\* An executor whose worker took the ctx.Done() case returns later; its
\* result stays in a channel nobody reads.
LateReturn ==
    /\ abandoned > 0
    /\ abandoned' = abandoned - 1
    /\ UNCHANGED <<cfg, life, jobs, closed, store, wpc, wjob, deadline, exec, done,
                   now, lastSubmit, accepted>>

AbandonedReturn == LateReturn /\ UNCHANGED outside

\* The cases of processJob's select that can proceed.
ReadyCases(w) ==
    (IF done[w] # "empty" THEN {"done"} ELSE {}) \cup
    (IF Expired(w) THEN {"ctx"} ELSE {})

\* Faulty variant of Outcome: the taken branch leaves the record as it is.
OutcomeKeepsRunning(w, c) == store

\* The store after the branch of the select that was taken.
Outcome(w, c) ==
    IF c = "done"
    THEN IF done[w] # ExecNil
         THEN UpdateStatus(store, wjob[w], StatusFailed, done[w], now)
         ELSE UpdateStatus(store, wjob[w], StatusCompleted, "", now)
    ELSE UpdateStatus(store, wjob[w], StatusCancelled, DeadlineExceeded, now)

\* Faulty variant of EndJob: a job that failed is processed again.
EndJobRetries(w, c) ==
    /\ store' = Outcome(w, c)
    /\ abandoned' = abandoned + (IF exec[w] = "running" THEN 1 ELSE 0)
    /\ IF c = "done" /\ done[w] # ExecNil
       THEN wpc' = [wpc EXCEPT ![w] = "got"] /\ wjob' = wjob
       ELSE wpc' = [wpc EXCEPT ![w] = "loop"] /\ wjob' = [wjob EXCEPT ![w] = NoJobID]
    /\ deadline' = [deadline EXCEPT ![w] = 0]
    /\ exec' = [exec EXCEPT ![w] = "none"]
    /\ done' = [done EXCEPT ![w] = "empty"]
    /\ UNCHANGED <<cfg, life, jobs, closed, now, lastSubmit, accepted>>

\* The taken branch's UpdateStatus and the return to the range loop.
EndJob(w, c) ==
    /\ store' = Outcome(w, c)
    /\ abandoned' = abandoned + (IF exec[w] = "running" THEN 1 ELSE 0)
    /\ wpc' = [wpc EXCEPT ![w] = "loop"]
    /\ wjob' = [wjob EXCEPT ![w] = NoJobID]
    /\ deadline' = [deadline EXCEPT ![w] = 0]
    /\ exec' = [exec EXCEPT ![w] = "none"]
    /\ done' = [done EXCEPT ![w] = "empty"]
    /\ UNCHANGED <<cfg, life, jobs, closed, now, lastSubmit, accepted>>

Complete(w, c) == EndJob(w, c) /\ UNCHANGED outside

\* processJob's select: with no case ready the worker blocks; with one or both
\* ready, Go takes one of the ready cases (a uniform pseudo-random choice).
Select(w) ==
    /\ wpc[w] = "started"
    /\ IF ReadyCases(w) = {}
       THEN /\ wpc' = [wpc EXCEPT ![w] = "parked"]
            /\ UNCHANGED <<cfg, life, jobs, closed, store, wjob, deadline, exec, done,
                           abandoned, now, lastSubmit, accepted>>
            /\ UNCHANGED outside
       ELSE \E c \in ReadyCases(w) : Complete(w, c)

\* A worker that was blocked in the select runs the case that woke it.
Finish(w) ==
    \/ /\ wpc[w] = "wokenDone"
       /\ Complete(w, "done")
    \/ /\ wpc[w] = "wokenCtx"
       /\ Complete(w, "ctx")

\* A context is live from WithTimeout to the end of processJob.
Live(w) == wpc[w] \in {"ctx", "started", "parked"}

\* Time passes.  The clock counts the time that passes while some context's
\* deadline is still ahead: the time that passes otherwise shifts every later
\* timestamp alike and is read by nothing.  The timer of a context wakes the
\* worker blocked in the select when the deadline is reached.
Tick ==
    /\ \E w \in Workers : Live(w) /\ ~Expired(w)
    /\ now' = now + 1
    /\ wpc' = [w \in Workers |->
                 IF wpc[w] = "parked" /\ now + 1 >= deadline[w]
                 THEN "wokenCtx" ELSE wpc[w]]
    /\ UNCHANGED <<cfg, life, jobs, closed, store, wjob, deadline, exec, done,
                   abandoned, lastSubmit, accepted>>
    /\ UNCHANGED outside

\* A collaborator creates the record: store.Save(&Job{ID: id, Status: queued, ...}).
\* The callers (handler.CreateJob, the tests) save a record before they submit
\* its identifier, or not at all.
Save(id) ==
    /\ accepted[id] = 0
    /\ store' = StoreSave(store, id, NewJob(now))
    /\ UNCHANGED <<cfg, life, jobs, closed, wpc, wjob, deadline, exec, done,
                   abandoned, now, lastSubmit, accepted>>
    /\ UNCHANGED outside

Next ==
    \/ \E id \in JobIDs : Save(id)
    \/ \E id \in JobIDs : Submit(id)
    \/ StopCall
    \/ StopReturn
    \/ \E w \in Workers : Receive(w)
    \/ \E w \in Workers : Begin(w)
    \/ \E w \in Workers : MarkRunning(w)
    \/ \E w \in Workers : ExecReturn(w)
    \/ AbandonedReturn
    \/ \E w \in Workers : Select(w)
    \/ \E w \in Workers : Finish(w)
    \/ Tick

Spec == Init /\ [][Next]_vars

\* The goroutines of the pool are scheduled, timers fire and a Stop that can
\* return does; the callers (Save, Submit, Stop) and the task executors
\* promise nothing.  A worker's step stays enabled until that worker takes it,
\* so fairness towards each step of some worker follows from fairness towards
\* every worker goroutine.
Fairness ==
    /\ WF_vars(\E w \in Workers : Receive(w))
    /\ WF_vars(\E w \in Workers : Begin(w))
    /\ WF_vars(\E w \in Workers : MarkRunning(w))
    /\ WF_vars(\E w \in Workers : Select(w))
    /\ WF_vars(\E w \in Workers : Finish(w))
    /\ WF_vars(Tick)
    /\ WF_vars(StopReturn)

\* The configurations the liveness properties are checked for.
FairConfigs == {c \in ValidConfigs : c.JobTimeout = 1}

InitFair ==
    /\ (\E c \in FairConfigs : NewPool(c)) /\ InitRest
    /\ ProgramsIdle

FairSpec == InitFair /\ [][Next]_vars /\ Fairness

InitAnyConfig ==
    /\ (\E c \in ValidConfigs \cup InvalidConfigs : NewPool(c)) /\ InitRest
    /\ ProgramsIdle

SpecAnyConfig == InitAnyConfig /\ [][Next]_vars

\* ------------------------------------- store/store.go, with its pointers

\* The store's callers make at most MaxCalls calls.
MaxCalls == 5

\* The clock values the timestamps are taken from: 0..MaxStamp.
MaxStamp == 1

ErrNotFound == "job not found"

NoAddr == 0

NoJob == [ID |-> "", Task |-> "", Status |-> "", Error |-> "", CreatedAt |-> 0, UpdatedAt |-> 0]

\* The job queue server is not running.
JobQueueIdle == NewPool(CHOOSE c \in ValidConfigs : TRUE) /\ InitRest

\* The variables of the store and of its caller.
mem == prog.mem              \* the Job objects: address -> value
table == prog.table          \* MemoryStore.jobs: id -> address
got == prog.got              \* the caller's variable that holds what Get returned
ret == prog.ret              \* the call made last and its error
listed == prog.listed        \* what List returned last
everSaved == prog.everSaved  \* the identifiers passed to Save so far
ncalls == prog.ncalls        \* the calls made so far
tclock == prog.tclock        \* time.Now()
kept == prog.kept            \* the caller's pointer to the object it saved last
seen == prog.seen            \* the status the caller read through that pointer

\* store.New() and no call yet.
TableEmpty ==
    [name |-> "store",
     mem |-> << >>,
     table |-> << >>,
     got |-> [ref |-> NoAddr, val |-> NoJob],
     ret |-> [op |-> "none", id |-> "", err |-> "nil"],
     listed |-> << >>,
     everSaved |-> {},
     kept |-> NoAddr,
     seen |-> "",
     ncalls |-> 0,
     tclock |-> 0]

InitTable == JobQueueIdle /\ prog = TableEmpty

\* &Job{ID: id, Task: ..., Status: queued, CreatedAt: now, UpdatedAt: now}
NewRecord(id, t) ==
    [ID |-> id, Task |-> "task", Status |-> StatusQueued, Error |-> "",
     CreatedAt |-> t, UpdatedAt |-> t]

\* What UpdateStatus is called with: a status and an error text.
Updates ==
    { <<StatusRunning, "">>, <<StatusFailed, "queue is full">> }

\* The record the map holds for id.
Stored(id) == mem[table[id]]

\* MemoryStore.Save: s.jobs[job.ID] = job, job the pointer to a new object.
SaveCall(id) ==
    /\ ncalls < MaxCalls
    /\ prog' = [prog EXCEPT
                   !.ncalls = @ + 1,
                   !.mem = Append(@, NewRecord(id, tclock)),
                   !.table = [x \in DOMAIN table \cup {id} |->
                                 IF x = id THEN Len(mem) + 1 ELSE table[x]],
                   !.everSaved = @ \cup {id},
                   !.kept = Len(mem) + 1,
                   !.ret = [op |-> "Save", id |-> id, err |-> "nil"]]
    /\ UNCHANGED poolVars

\* Faulty variant of TableGet: Get returns the stored pointer, not a copy.
TableGetAliased(id) ==
    IF id \in DOMAIN table
    THEN [job |-> [ref |-> table[id], val |-> NoJob], err |-> "nil"]
    ELSE [job |-> [ref |-> NoAddr, val |-> NoJob], err |-> ErrNotFound]

\* MemoryStore.Get: return *job, nil (the value the pointer refers to), or
\* Job{}, ErrNotFound.
TableGet(id) ==
    IF id \in DOMAIN table
    THEN [job |-> [ref |-> NoAddr, val |-> Stored(id)], err |-> "nil"]
    ELSE [job |-> [ref |-> NoAddr, val |-> NoJob], err |-> ErrNotFound]

\* got, err := s.Get(id)
GetCall(id) ==
    /\ ncalls < MaxCalls
    /\ prog' = [prog EXCEPT
                   !.ncalls = @ + 1,
                   !.got = TableGet(id).job,
                   !.ret = [op |-> "Get", id |-> id, err |-> TableGet(id).err]]
    /\ UNCHANGED poolVars

\* The string fields of Job.
StringFields == {"ID", "Task", "Status", "Error"}

\* The caller assigns to a field of what Get returned (got.Status = ...): the
\* assignment goes to the caller's own value, or through the pointer if what
\* it holds is one.
Mutate(f) ==
    /\ ret.op = "Get"
    /\ ret.err = "nil"
    /\ ncalls < MaxCalls
    /\ prog' = [prog EXCEPT
                   !.ncalls = @ + 1,
                   !.got = IF got.ref = NoAddr
                           THEN [got EXCEPT !.val = [@ EXCEPT ![f] = "changed"]]
                           ELSE got,
                   !.mem = IF got.ref = NoAddr
                           THEN mem
                           ELSE [mem EXCEPT ![got.ref] = [@ EXCEPT ![f] = "changed"]],
                   !.ret = [op |-> "Mutate", id |-> ret.id, err |-> "nil"]]
    /\ UNCHANGED poolVars

\* Faulty variant of TableUpdateStatus: the record is replaced by a new one
\* that has the status, the error text and both timestamps set to time.Now().
TableUpdateStatusReplaces(id, status, errMsg) ==
    IF id \in DOMAIN table
    THEN [mem |-> [mem EXCEPT ![table[id]] =
                      [NewRecord(id, tclock) EXCEPT !.Status = status, !.Error = errMsg]],
          err |-> "nil"]
    ELSE [mem |-> mem, err |-> ErrNotFound]

\* Faulty variant of TableUpdateStatus: an unknown identifier is not reported.
TableUpdateStatusSilent(id, status, errMsg) ==
    IF id \in DOMAIN table
    THEN [mem |-> [mem EXCEPT ![table[id]] =
                      [@ EXCEPT !.Status = status, !.Error = errMsg, !.UpdatedAt = tclock]],
          err |-> "nil"]
    ELSE [mem |-> mem, err |-> "nil"]

\* MemoryStore.UpdateStatus: the object the map points to gets the status, the
\* error text and time.Now(); an unknown identifier is ErrNotFound.
TableUpdateStatus(id, status, errMsg) ==
    IF id \in DOMAIN table
    THEN [mem |-> [mem EXCEPT ![table[id]] =
                      [@ EXCEPT !.Status = status, !.Error = errMsg, !.UpdatedAt = tclock]],
          err |-> "nil"]
    ELSE [mem |-> mem, err |-> ErrNotFound]

\* err := s.UpdateStatus(id, status, errMsg)
UpdateStatusCall(id, u) ==
    /\ ncalls < MaxCalls
    /\ prog' = [prog EXCEPT
                   !.ncalls = @ + 1,
                   !.mem = TableUpdateStatus(id, u[1], u[2]).mem,
                   !.ret = [op |-> "UpdateStatus", id |-> id,
                            err |-> TableUpdateStatus(id, u[1], u[2]).err]]
    /\ UNCHANGED poolVars

\* The orders in which a range over the map can visit its keys.
Orderings(S) ==
    {o \in [1..Cardinality(S) -> S] : \A i, j \in DOMAIN o : i # j => o[i] # o[j]}

\* Faulty variant of TableList: the result slice is made with a length, not a
\* capacity, so the appended copies follow as many zero values.
TableListPadded(o) ==
    [i \in 1..(2 * Len(o)) |-> IF i <= Len(o) THEN NoJob ELSE Stored(o[i - Len(o)])]

\* MemoryStore.List: result = append(result, *j) for every j of the map.
TableList(o) == [i \in 1..Len(o) |-> Stored(o[i])]

\* jobs := s.List()
ListCall ==
    /\ ncalls < MaxCalls
    /\ \E o \in Orderings(DOMAIN table) :
          prog' = [prog EXCEPT
                     !.ncalls = @ + 1,
                     !.listed = TableList(o),
                     !.ret = [op |-> "List", id |-> "", err |-> "nil"]]
    /\ UNCHANGED poolVars

\* Time passes between two calls.
TableTick ==
    /\ tclock < MaxStamp
    /\ prog' = [prog EXCEPT !.tclock = @ + 1]
    /\ UNCHANGED poolVars

NextTable ==
    \/ \E id \in JobIDs : SaveCall(id)
    \/ \E id \in JobIDs : GetCall(id)
    \/ \E f \in StringFields : Mutate(f)
    \/ \E id \in JobIDs, u \in Updates : UpdateStatusCall(id, u)
    \/ ListCall
    \/ TableTick

SpecTable == InitTable /\ [][NextTable]_vars

\* The caller of Save assigns to a field of the object it passed (job.f = ...).
WriteSaved(f) ==
    /\ kept # NoAddr
    /\ ncalls < MaxCalls
    /\ prog' = [prog EXCEPT
                   !.ncalls = @ + 1,
                   !.mem[kept][f] = "changed",
                   !.ret = [op |-> "WriteSaved", id |-> mem[kept].ID, err |-> "nil"]]
    /\ UNCHANGED poolVars

\* The caller of Save reads the status of the object it passed (job.Status,
\* as handler.CreateJob does for its response).
ReadSaved ==
    /\ kept # NoAddr
    /\ ncalls < MaxCalls
    /\ prog' = [prog EXCEPT
                   !.ncalls = @ + 1,
                   !.seen = mem[kept].Status,
                   !.ret = [op |-> "ReadSaved", id |-> mem[kept].ID, err |-> "nil"]]
    /\ UNCHANGED poolVars

\* The store and a caller that keeps the pointer it saved.
NextKept ==
    \/ \E id \in JobIDs : SaveCall(id)
    \/ \E id \in JobIDs : GetCall(id)
    \/ \E id \in JobIDs, u \in Updates : UpdateStatusCall(id, u)
    \/ ListCall
    \/ \E f \in StringFields : WriteSaved(f)
    \/ ReadSaved
    \/ TableTick

SpecKept == InitTable /\ [][NextKept]_vars

\* ------------------------------------------------------- TodoApp/todo.go

\* Add is called while the ID it assigns is at most MaxTodoID.
MaxTodoID == 3

\* The variables of the Store and of its caller.
todos == prog.todos        \* the Store: a slice of Todo
usedIDs == prog.usedIDs    \* the IDs Add has assigned so far
todoRet == prog.todoRet    \* the call made last and its error

\* An empty Store (storage.load of a missing file) and no call yet.
TodoEmpty ==
    [name |-> "todo",
     todos |-> << >>,
     usedIDs |-> {},
     todoRet |-> [op |-> "none", id |-> 0, err |-> "nil"]]

InitTodo == JobQueueIdle /\ prog = TodoEmpty

\* Store.Add: the loop that finds the largest ID of the slice (0 if empty).
RECURSIVE TodoMaxID(_)
TodoMaxID(s) ==
    IF s = << >> THEN 0
    ELSE LET m == TodoMaxID(Tail(s))
         IN IF Head(s).ID > m THEN Head(s).ID ELSE m

\* The index of the first Todo whose ID is id, 0 if there is none.
TodoIndex(s, id) ==
    IF \E i \in DOMAIN s : s[i].ID = id
    THEN CHOOSE i \in DOMAIN s : s[i].ID = id /\ \A j \in 1..(i - 1) : s[j].ID # id
    ELSE 0

\* Store.Add: append Todo{ID: maxID + 1, Done: false} (title and creation
\* time are read by no operation of the Store).
TodoAdd ==
    /\ TodoMaxID(todos) + 1 <= MaxTodoID
    /\ prog' = [prog EXCEPT
                   !.todos = Append(@, [ID |-> TodoMaxID(todos) + 1, Done |-> FALSE]),
                   !.usedIDs = @ \cup {TodoMaxID(todos) + 1},
                   !.todoRet = [op |-> "Add", id |-> TodoMaxID(todos) + 1, err |-> "nil"]]
    /\ UNCHANGED poolVars

\* Store.Complete: the first Todo with the ID is marked done, or "not found".
TodoComplete(id) ==
    /\ IF TodoIndex(todos, id) # 0
       THEN prog' = [prog EXCEPT
                       !.todos = [@ EXCEPT ![TodoIndex(todos, id)].Done = TRUE],
                       !.todoRet = [op |-> "Complete", id |-> id, err |-> "nil"]]
       ELSE prog' = [prog EXCEPT
                       !.todoRet = [op |-> "Complete", id |-> id, err |-> "not found"]]
    /\ UNCHANGED poolVars

\* Store.Delete: append((*s)[:i], (*s)[i+1:]...) for the first Todo with the
\* ID, or "not found".
TodoDelete(id) ==
    /\ IF TodoIndex(todos, id) # 0
       THEN prog' = [prog EXCEPT
                       !.todos = SubSeq(todos, 1, TodoIndex(todos, id) - 1)
                                    \o SubSeq(todos, TodoIndex(todos, id) + 1, Len(todos)),
                       !.todoRet = [op |-> "Delete", id |-> id, err |-> "nil"]]
       ELSE prog' = [prog EXCEPT
                       !.todoRet = [op |-> "Delete", id |-> id, err |-> "not found"]]
    /\ UNCHANGED poolVars

NextTodo ==
    \/ TodoAdd
    \/ \E id \in 1..MaxTodoID : TodoComplete(id)
    \/ \E id \in 1..MaxTodoID : TodoDelete(id)

SpecTodo == InitTodo /\ [][NextTodo]_vars

\* ------------------------------------------- WebScraper/scraper/scraper.go

\* Run is called with at most MaxURLs URLs.
MaxURLs == 3

\* cfg.MaxWorkers is -1, 0 or a value up to MaxWorkersValue.
MaxWorkersValue == 2

URLNames == {"u", "v"}

\* The urls argument: any list, with repetitions, the empty one included.
URLLists == UNION {[1..n -> URLNames] : n \in 0..MaxURLs}

WorkerValues == {-1} \cup 0..MaxWorkersValue

\* The variables of Run and of the goroutines it starts.
urls == prog.urls              \* the urls argument
maxWorkers == prog.maxWorkers  \* cfg.MaxWorkers
runpc == prog.runpc            \* where Run is
spawned == prog.spawned        \* the URLs the loop has started a goroutine for
gpc == prog.gpc                \* where each goroutine is
sem == prog.sem                \* the values held by the channel sem
results == prog.results        \* the buffer of the channel results
resClosed == prog.resClosed    \* results is closed
wg == prog.wg                  \* the WaitGroup's counter
closer == prog.closer          \* the goroutine that waits and closes results
collected == prog.collected    \* the slice Run returns

\* Run(us, Config{MaxWorkers: m}) is entered.
RunCalled(us, m) ==
    [name |-> "scraper",
     urls |-> us,
     maxWorkers |-> m,
     runpc |-> "start",
     spawned |-> 0,
     gpc |-> [g \in 1..Len(us) |-> "unborn"],
     sem |-> 0,
     results |-> << >>,
     resClosed |-> FALSE,
     wg |-> 0,
     closer |-> "none",
     collected |-> << >>]

InitScraper ==
    /\ JobQueueIdle
    /\ \E us \in URLLists, m \in WorkerValues : prog = RunCalled(us, m)

\* if cfg.MaxWorkers < 1 { cfg.MaxWorkers = 1 }; sem, results are made.
RunStart ==
    /\ runpc = "start"
    /\ prog' = [prog EXCEPT
                   !.maxWorkers = IF @ < 1 THEN 1 ELSE @,
                   !.runpc = "loop"]
    /\ UNCHANGED poolVars

\* for _, u := range urls { wg.Add(1); go func(rawURL string) {...}(u) }
Spawn ==
    /\ runpc = "loop"
    /\ spawned < Len(urls)
    /\ prog' = [prog EXCEPT
                   !.wg = @ + 1,
                   !.spawned = @ + 1,
                   !.gpc[spawned + 1] = "acquire"]
    /\ UNCHANGED poolVars

\* After the loop: go func() { wg.Wait(); close(results) }(), and Run goes on
\* to range over results.
StartCloser ==
    /\ runpc = "loop"
    /\ spawned = Len(urls)
    /\ prog' = [prog EXCEPT !.closer = "waiting", !.runpc = "range"]
    /\ UNCHANGED poolVars

\* Faulty variant of Acquire: the goroutine goes on without a free slot.
AcquireNoLimit(g) ==
    /\ gpc[g] = "acquire"
    /\ prog' = [prog EXCEPT !.sem = @ + 1, !.gpc[g] = "fetch"]
    /\ UNCHANGED poolVars

\* sem <- struct{}{}: blocks while the channel holds cfg.MaxWorkers values.
Acquire(g) ==
    /\ gpc[g] = "acquire"
    /\ sem < maxWorkers
    /\ prog' = [prog EXCEPT !.sem = @ + 1, !.gpc[g] = "fetch"]
    /\ UNCHANGED poolVars

\* title, err := fetchTitle(client, rawURL) returns (the goroutine is inside
\* fetchTitle while it is at "fetch").
FetchReturn(g) ==
    /\ gpc[g] = "fetch"
    /\ prog' = [prog EXCEPT !.gpc[g] = "send"]
    /\ UNCHANGED poolVars

\* results <- Result{URL: rawURL, ...}: panics on a closed channel, blocks
\* while the buffer (capacity len(urls)) is full.  A Result is modelled by its
\* URL; title and error are what fetchTitle returned.
SendResult(g) ==
    /\ gpc[g] = "send"
    /\ IF resClosed
       THEN prog' = [prog EXCEPT !.gpc[g] = "panicked"]
       ELSE /\ Len(results) < Len(urls)
            /\ prog' = [prog EXCEPT
                           !.results = Append(@, urls[g]),
                           !.gpc[g] = "release"]
    /\ UNCHANGED poolVars

\* Faulty variant of Release: the slot is not given back.
ReleaseKeepsSlot(g) ==
    /\ gpc[g] = "release"
    /\ prog' = [prog EXCEPT !.gpc[g] = "leaving"]
    /\ UNCHANGED poolVars

\* defer func() { <-sem }()
Release(g) ==
    /\ gpc[g] = "release"
    /\ sem > 0
    /\ prog' = [prog EXCEPT !.sem = @ - 1, !.gpc[g] = "leaving"]
    /\ UNCHANGED poolVars

\* defer wg.Done()
WgDone(g) ==
    /\ gpc[g] = "leaving"
    /\ prog' = [prog EXCEPT !.wg = @ - 1, !.gpc[g] = "exited"]
    /\ UNCHANGED poolVars

\* The closer: wg.Wait() returns when the counter is 0; close(results).
CloserClose ==
    /\ closer = "waiting"
    /\ wg = 0
    /\ prog' = [prog EXCEPT !.resClosed = TRUE, !.closer = "done"]
    /\ UNCHANGED poolVars

\* for r := range results { collected = append(collected, r) }
Aggregate ==
    /\ runpc = "range"
    /\ results # << >>
    /\ prog' = [prog EXCEPT
                   !.collected = Append(@, Head(results)),
                   !.results = Tail(@)]
    /\ UNCHANGED poolVars

\* The range ends when results is closed and empty: return collected.
RunReturn ==
    /\ runpc = "range"
    /\ results = << >>
    /\ resClosed
    /\ prog' = [prog EXCEPT !.runpc = "returned"]
    /\ UNCHANGED poolVars

Goroutines == DOMAIN gpc

NextScraper ==
    \/ RunStart
    \/ Spawn
    \/ StartCloser
    \/ \E g \in Goroutines : Acquire(g)
    \/ \E g \in Goroutines : FetchReturn(g)
    \/ \E g \in Goroutines : SendResult(g)
    \/ \E g \in Goroutines : Release(g)
    \/ \E g \in Goroutines : WgDone(g)
    \/ CloserClose
    \/ Aggregate
    \/ RunReturn

SpecScraper == InitScraper /\ [][NextScraper]_vars

\* Every goroutine that can take a step is scheduled, and fetchTitle returns
\* (the client's Timeout bounds the whole request).
FairnessScraper ==
    /\ WF_vars(RunStart)
    /\ WF_vars(Spawn)
    /\ WF_vars(StartCloser)
    /\ WF_vars(\E g \in Goroutines : Acquire(g))
    /\ WF_vars(\E g \in Goroutines : FetchReturn(g))
    /\ WF_vars(\E g \in Goroutines : SendResult(g))
    /\ WF_vars(\E g \in Goroutines : Release(g))
    /\ WF_vars(\E g \in Goroutines : WgDone(g))
    /\ WF_vars(CloserClose)
    /\ WF_vars(Aggregate)
    /\ WF_vars(RunReturn)

FairSpecScraper == InitScraper /\ [][NextScraper]_vars /\ FairnessScraper

\* ---------------------------------------------------- handler/handler.go

\* The variables of handler.CreateJob, for the request in progress.
hpc == prog.pc      \* the handler's position
hid == prog.id      \* job.ID
resp == prog.resp   \* the response written last

\* No request is being handled.
HandlerIdle ==
    [name |-> "handler", pc |-> "idle", id |-> NoJobID,
     resp |-> [code |-> 0, status |-> ""]]

InitHandler ==
    /\ (\E c \in ValidConfigs : NewPool(c)) /\ InitRest
    /\ prog = HandlerIdle

\* CreateJob: the body is not JSON or has no task: 400, nothing else.
CreateJobBadRequest ==
    /\ hpc = "idle"
    /\ prog' = [prog EXCEPT !.resp = [code |-> 400, status |-> ""]]
    /\ UNCHANGED poolVars

\* CreateJob: job := &store.Job{ID: uuid.NewString(), Status: queued, ...};
\* h.Store.Save(job).  The identifier is one no record has yet.
CreateJobSave(id) ==
    /\ hpc = "idle"
    /\ id \notin DOMAIN store
    /\ store' = StoreSave(store, id, NewJob(now))
    /\ prog' = [prog EXCEPT !.id = id, !.pc = "saved"]
    /\ UNCHANGED <<cfg, life, jobs, closed, wpc, wjob, deadline, exec, done,
                   abandoned, now, lastSubmit, accepted>>

\* CreateJob: h.Pool.Submit(job.ID)
CreateJobSubmit ==
    /\ hpc = "saved"
    /\ Send(hid)
    /\ prog' = [prog EXCEPT !.pc = CASE lastSubmit' = "true" -> "accepted"
                                      [] lastSubmit' = "false" -> "rejected"
                                      [] OTHER -> "panicked"]

\* Faulty variant of CreateJobRollback: 503 without marking the record.
CreateJobRollbackNoMark ==
    /\ hpc = "rejected"
    /\ prog' = [HandlerIdle EXCEPT !.resp = [code |-> 503, status |-> ""]]
    /\ UNCHANGED poolVars

\* CreateJob, Submit returned false: UpdateStatus(job.ID, failed, "queue is
\* full") and 503.
CreateJobRollback ==
    /\ hpc = "rejected"
    /\ store' = UpdateStatus(store, hid, StatusFailed, "queue is full", now)
    /\ prog' = [HandlerIdle EXCEPT !.resp = [code |-> 503, status |-> ""]]
    /\ UNCHANGED <<cfg, life, jobs, closed, wpc, wjob, deadline, exec, done,
                   abandoned, now, lastSubmit, accepted>>

\* CreateJob, Submit returned true: 202 with CreateJobResponse{ID: job.ID,
\* Status: job.Status}.  job is the pointer Save put into the map, so the
\* status is read from the stored record, as it is at that moment (the read
\* takes no lock).
CreateJobRespond ==
    /\ hpc = "accepted"
    /\ prog' = [HandlerIdle EXCEPT
                   !.resp = [code |-> 202, status |-> store[hid].Status]]
    /\ UNCHANGED poolVars

\* CreateJob, Submit panicked: net/http recovers the panic and drops the
\* connection; no response is written.
CreateJobPanic ==
    /\ hpc = "panicked"
    /\ prog' = [HandlerIdle EXCEPT !.resp = [code |-> 0, status |-> "aborted"]]
    /\ UNCHANGED poolVars

\* The pool behind the HTTP handler: requests come one after the other.
NextHandler ==
    \/ CreateJobBadRequest
    \/ \E id \in JobIDs : CreateJobSave(id)
    \/ CreateJobSubmit
    \/ CreateJobRollback
    \/ CreateJobRespond
    \/ CreateJobPanic
    \/ StopCall
    \/ StopReturn
    \/ \E w \in Workers : Receive(w)
    \/ \E w \in Workers : Begin(w)
    \/ \E w \in Workers : MarkRunning(w)
    \/ \E w \in Workers : ExecReturn(w)
    \/ AbandonedReturn
    \/ \E w \in Workers : Select(w)
    \/ \E w \in Workers : Finish(w)
    \/ Tick

SpecHandler == InitHandler /\ [][NextHandler]_vars

\* ------------------------------------------- the channel, observed

\* What an observer of the channel has seen.
order == prog.order   \* the identifiers in the order Submit accepted them
taken == prog.taken   \* the identifiers in the order they left the channel

\* Nothing observed yet.
OrderEmpty == [name |-> "observer", order |-> << >>, taken |-> << >>]

InitOrder ==
    /\ (\E c \in ValidConfigs : NewPool(c)) /\ InitRest
    /\ prog = OrderEmpty

\* Submit as the observer sees it: an accepted identifier is noted, and so is
\* one that a blocked worker receives in the same step.
SubmitObserved(id) ==
    /\ life # "failed"
    /\ NumAccepted < MaxSubmits
    /\ Send(id)
    /\ prog' = [prog EXCEPT
                   !.order = IF accepted'[id] > accepted[id] THEN Append(@, id) ELSE @,
                   !.taken = IF wjob' # wjob THEN Append(@, id) ELSE @]

\* The range loop's receive as the observer sees it.
ReceiveObserved(w) ==
    /\ Dequeue(w)
    /\ prog' = [prog EXCEPT !.taken = IF wpc'[w] = "got" THEN Append(@, wjob'[w]) ELSE @]

NextOrder ==
    \/ \E id \in JobIDs : Save(id)
    \/ \E id \in JobIDs : SubmitObserved(id)
    \/ StopCall
    \/ StopReturn
    \/ \E w \in Workers : ReceiveObserved(w)
    \/ \E w \in Workers : Begin(w)
    \/ \E w \in Workers : MarkRunning(w)
    \/ \E w \in Workers : ExecReturn(w)
    \/ AbandonedReturn
    \/ \E w \in Workers : Select(w)
    \/ \E w \in Workers : Finish(w)
    \/ Tick

SpecOrder == InitOrder /\ [][NextOrder]_vars

\* ------------------------------- store/store.go, its methods interleaved

\* The goroutines that call the store at the same time (HTTP handlers and
\* workers).
Threads == {1, 2}

\* The variables of the store and of the goroutines inside its methods.
recs == prog.recs           \* MemoryStore.jobs with the objects: id -> Job
mu == prog.mu               \* MemoryStore.mu: [w |-> the goroutine holding the
                            \* lock or 0, r |-> the goroutines holding a read lock]
th == prog.th               \* each goroutine: the method it is in and its locals
versions == prog.versions   \* id -> the values the record had between two writes
clk == prog.clk             \* time.Now()
nops == prog.nops           \* the calls made so far

ThreadIdle == [pc |-> "idle", op |-> "none", ids |-> << >>, u |-> <<"", "">>,
               buf |-> NoJob, out |-> << >>, err |-> "nil"]

\* store.New(), no goroutine inside a method.
LockedEmpty ==
    [name |-> "locked",
     recs |-> << >>,
     mu |-> [w |-> 0, r |-> {}],
     th |-> [t \in Threads |-> ThreadIdle],
     versions |-> [id \in JobIDs |-> {}],
     clk |-> 0,
     nops |-> 0]

InitLocked == JobQueueIdle /\ prog = LockedEmpty

\* s.mu.Lock() returns when no goroutine holds the lock or a read lock.
CanLock == mu.w = 0 /\ mu.r = {}

\* Faulty variant of CanRLock: RLock does not wait.
CanRLockAlways == TRUE

\* s.mu.RLock() returns when no goroutine holds the lock.  (It also waits
\* while a Lock call is pending; that only removes interleavings.)
CanRLock == mu.w = 0

\* Save: s.mu.Lock(); the caller has built the object.
SaveLock(t, id) ==
    /\ th[t].pc = "idle"
    /\ nops < MaxCalls
    /\ id \notin DOMAIN recs
    /\ \A o \in Threads : ~(th[o].op = "Save" /\ th[o].ids = <<id>>)
    /\ CanLock
    /\ prog' = [prog EXCEPT
                   !.nops = @ + 1,
                   !.mu.w = t,
                   !.th[t] = [ThreadIdle EXCEPT !.pc = "store", !.op = "Save",
                                                !.ids = <<id>>]]
    /\ UNCHANGED poolVars

\* Save: s.jobs[job.ID] = job
SaveStore(t) ==
    /\ th[t].pc = "store"
    /\ prog' = [prog EXCEPT
                   !.recs = [x \in DOMAIN recs \cup {th[t].ids[1]} |->
                                IF x = th[t].ids[1] THEN NewRecord(x, clk) ELSE recs[x]],
                   !.th[t].pc = "unlock"]
    /\ UNCHANGED poolVars

\* UpdateStatus: s.mu.Lock(); job, ok := s.jobs[id]; if !ok return ErrNotFound
UpdateLock(t, id, u) ==
    /\ th[t].pc = "idle"
    /\ nops < MaxCalls
    /\ CanLock
    /\ prog' = [prog EXCEPT
                   !.nops = @ + 1,
                   !.mu.w = t,
                   !.th[t] = [ThreadIdle EXCEPT
                                !.pc = IF id \in DOMAIN recs THEN "status" ELSE "unlock",
                                !.op = "UpdateStatus", !.ids = <<id>>, !.u = u,
                                !.err = IF id \in DOMAIN recs THEN "nil" ELSE ErrNotFound]]
    /\ UNCHANGED poolVars

\* UpdateStatus: job.Status = status
UpdateWriteStatus(t) ==
    /\ th[t].pc = "status"
    /\ prog' = [prog EXCEPT
                   !.recs[th[t].ids[1]].Status = th[t].u[1],
                   !.th[t].pc = "error"]
    /\ UNCHANGED poolVars

\* UpdateStatus: job.Error = errMsg
UpdateWriteError(t) ==
    /\ th[t].pc = "error"
    /\ prog' = [prog EXCEPT
                   !.recs[th[t].ids[1]].Error = th[t].u[2],
                   !.th[t].pc = "time"]
    /\ UNCHANGED poolVars

\* UpdateStatus: job.UpdatedAt = time.Now()
UpdateWriteTime(t) ==
    /\ th[t].pc = "time"
    /\ prog' = [prog EXCEPT
                   !.recs[th[t].ids[1]].UpdatedAt = clk,
                   !.th[t].pc = "unlock"]
    /\ UNCHANGED poolVars

\* Save, UpdateStatus: the deferred s.mu.Unlock() and the return.
Unlock(t) ==
    /\ th[t].pc = "unlock"
    /\ prog' = [prog EXCEPT
                   !.mu.w = IF @ = t THEN 0 ELSE @,
                   !.versions = IF th[t].ids[1] \in DOMAIN recs
                                THEN [@ EXCEPT ![th[t].ids[1]] = @ \cup {recs[th[t].ids[1]]}]
                                ELSE @,
                   !.th[t].pc = "idle"]
    /\ UNCHANGED poolVars

\* Get: s.mu.RLock(); job, ok := s.jobs[id]; if !ok return Job{}, ErrNotFound
GetRLock(t, id) ==
    /\ th[t].pc = "idle"
    /\ nops < MaxCalls
    /\ CanRLock
    /\ prog' = [prog EXCEPT
                   !.nops = @ + 1,
                   !.mu.r = @ \cup {t},
                   !.th[t] = [ThreadIdle EXCEPT
                                !.pc = IF id \in DOMAIN recs THEN "copy" ELSE "runlock",
                                !.op = "Get",
                                !.ids = IF id \in DOMAIN recs THEN <<id>> ELSE << >>,
                                !.err = IF id \in DOMAIN recs THEN "nil" ELSE ErrNotFound]]
    /\ UNCHANGED poolVars

\* List: s.mu.RLock(); for _, j := range s.jobs, in some order of the keys.
ListRLock(t) ==
    /\ th[t].pc = "idle"
    /\ nops < MaxCalls
    /\ CanRLock
    /\ \E o \in Orderings(DOMAIN recs) :
          prog' = [prog EXCEPT
                     !.nops = @ + 1,
                     !.mu.r = @ \cup {t},
                     !.th[t] = [ThreadIdle EXCEPT
                                  !.pc = IF o = << >> THEN "runlock" ELSE "copy",
                                  !.op = "List", !.ids = o]]
    /\ UNCHANGED poolVars

\* Get, List: *job is copied, a field at a time.  First the fields up to
\* Status.
CopyStatus(t) ==
    /\ th[t].pc = "copy"
    /\ prog' = [prog EXCEPT
                   !.th[t].buf = [recs[th[t].ids[1]] EXCEPT
                                     !.Error = NoJob.Error, !.UpdatedAt = NoJob.UpdatedAt],
                   !.th[t].pc = "copyError"]
    /\ UNCHANGED poolVars

\* Get, List: the copy of *job, field Error.
CopyError(t) ==
    /\ th[t].pc = "copyError"
    /\ prog' = [prog EXCEPT
                   !.th[t].buf.Error = recs[th[t].ids[1]].Error,
                   !.th[t].pc = "copyTime"]
    /\ UNCHANGED poolVars

\* Get, List: the copy of *job, field UpdatedAt; the copy is the result
\* (Get) or appended to it (List).
CopyTime(t) ==
    /\ th[t].pc = "copyTime"
    /\ prog' = [prog EXCEPT
                   !.th[t] = [@ EXCEPT
                                !.out = Append(@, [th[t].buf EXCEPT
                                                     !.UpdatedAt = recs[th[t].ids[1]].UpdatedAt]),
                                !.buf = NoJob,
                                !.ids = Tail(@),
                                !.pc = IF Tail(th[t].ids) = << >> THEN "runlock" ELSE "copy"]]
    /\ UNCHANGED poolVars

\* Get, List: the deferred s.mu.RUnlock() and the return.
RUnlock(t) ==
    /\ th[t].pc = "runlock"
    /\ prog' = [prog EXCEPT !.mu.r = @ \ {t}, !.th[t].pc = "idle"]
    /\ UNCHANGED poolVars

\* Time passes.
LockedTick ==
    /\ clk < MaxStamp
    /\ prog' = [prog EXCEPT !.clk = @ + 1]
    /\ UNCHANGED poolVars

NextLocked ==
    \/ \E t \in Threads, id \in JobIDs : SaveLock(t, id)
    \/ \E t \in Threads : SaveStore(t)
    \/ \E t \in Threads, id \in JobIDs, u \in Updates : UpdateLock(t, id, u)
    \/ \E t \in Threads : UpdateWriteStatus(t)
    \/ \E t \in Threads : UpdateWriteError(t)
    \/ \E t \in Threads : UpdateWriteTime(t)
    \/ \E t \in Threads : Unlock(t)
    \/ \E t \in Threads, id \in JobIDs : GetRLock(t, id)
    \/ \E t \in Threads : ListRLock(t)
    \/ \E t \in Threads : CopyStatus(t)
    \/ \E t \in Threads : CopyError(t)
    \/ \E t \in Threads : CopyTime(t)
    \/ \E t \in Threads : RUnlock(t)
    \/ LockedTick

SpecLocked == InitLocked /\ [][NextLocked]_vars

\* --------------------------- the pool, with the executors it leaves behind

\* done := make(chan error, 1)
DoneCap == 1

\* The executor goroutines whose worker took the ctx.Done() case before their
\* executeTask returned, in the order they were left: each one's position
\* ("running" in executeTask, "sending" at done <- ..., "ended"), the value
\* executeTask returned and the buffer of its done channel.
left == prog.left

\* No executor has been left behind.
ExecutorsNone == [name |-> "executors", left |-> << >>]

\* The configurations the executors are followed for: one worker, which
\* leaves one executor behind per job it cancels.
ExecConfigs == {c \in ValidConfigs : c.NumWorkers = 1}

InitExecutors ==
    /\ (\E c \in ExecConfigs : NewPool(c)) /\ InitRest
    /\ prog = ExecutorsNone

\* processJob returns: the executor of worker w, if it is still in
\* executeTask, goes on alone with the done channel that processJob made.
Leave(w) ==
    IF exec[w] = "running"
    THEN Append(left, [pc |-> "running", val |-> "", ch |-> << >>])
    ELSE left

\* processJob's select.
SelectLeaving(w) ==
    /\ wpc[w] = "started"
    /\ IF ReadyCases(w) = {}
       THEN /\ wpc' = [wpc EXCEPT ![w] = "parked"]
            /\ UNCHANGED <<cfg, life, jobs, closed, store, wjob, deadline, exec, done,
                           abandoned, now, lastSubmit, accepted>>
            /\ UNCHANGED prog
       ELSE \E c \in ReadyCases(w) :
               /\ EndJob(w, c)
               /\ prog' = [prog EXCEPT !.left = Leave(w)]

\* A worker that was blocked in the select runs the case that woke it.
FinishLeaving(w) ==
    \/ /\ wpc[w] = "wokenDone"
       /\ EndJob(w, "done")
       /\ prog' = [prog EXCEPT !.left = Leave(w)]
    \/ /\ wpc[w] = "wokenCtx"
       /\ EndJob(w, "ctx")
       /\ prog' = [prog EXCEPT !.left = Leave(w)]

\* executeTask returns in an executor that was left behind: its context has
\* expired.
LateExecReturn(i) ==
    /\ i \in DOMAIN left
    /\ left[i].pc = "running"
    /\ LateReturn
    /\ \E r \in {ExecNil, ExecCancelled} :
          prog' = [prog EXCEPT !.left[i] = [pc |-> "sending", val |-> r, ch |-> @.ch]]

\* Faulty variant of CanSendDone: the done channel is made without a buffer.
CanSendDoneUnbuffered(ch) == Len(ch) < DoneCap - 1

\* done <- v can proceed: no goroutine receives from the channel of an
\* executor that was left behind, so the send needs room in the buffer.
CanSendDone(ch) == Len(ch) < DoneCap

\* done <- executeTask(ctx, jobID) in an executor that was left behind; the
\* goroutine ends with it.
LateSend(i) ==
    /\ i \in DOMAIN left
    /\ left[i].pc = "sending"
    /\ CanSendDone(left[i].ch)
    /\ prog' = [prog EXCEPT !.left[i] =
                   [pc |-> "ended", val |-> "", ch |-> Append(@.ch, @.val)]]
    /\ UNCHANGED poolVars

NextExecutors ==
    \/ \E id \in JobIDs : Save(id)
    \/ \E id \in JobIDs : Submit(id)
    \/ StopCall
    \/ StopReturn
    \/ \E w \in Workers : Receive(w)
    \/ \E w \in Workers : Begin(w)
    \/ \E w \in Workers : MarkRunning(w)
    \/ \E w \in Workers : ExecReturn(w)
    \/ \E w \in Workers : SelectLeaving(w)
    \/ \E w \in Workers : FinishLeaving(w)
    \/ \E i \in 1..MaxSubmits : LateExecReturn(i)
    \/ \E i \in 1..MaxSubmits : LateSend(i)
    \/ Tick

\* An executor goroutine that has something to do is scheduled; nothing is
\* promised about anything else, the return of executeTask included.
FairnessExecutors == \A i \in 1..MaxSubmits : WF_vars(LateSend(i))

FairSpecExecutors == InitExecutors /\ [][NextExecutors]_vars /\ FairnessExecutors

\* ------------------------------------------- the pool, with a ledger

\* What a ledger of the pool's events holds.
dequeued == prog.dequeued         \* id -> receives from p.jobs that yielded id
started == prog.started           \* id -> executor goroutines started for id
lateReturns == prog.lateReturns   \* abandoned executors that have returned

\* Nothing has happened yet.
LedgerEmpty ==
    [name |-> "ledger",
     dequeued |-> [id \in JobIDs |-> 0],
     started |-> [id \in JobIDs |-> 0],
     lateReturns |-> 0]

InitLedger ==
    /\ (\E c \in ValidConfigs : NewPool(c)) /\ InitRest
    /\ prog = LedgerEmpty

\* Submit, with the receive of a blocked worker that its send completes.
SubmitCounted(id) ==
    /\ life # "failed"
    /\ NumAccepted < MaxSubmits
    /\ Send(id)
    /\ prog' = [prog EXCEPT !.dequeued[id] = IF wjob' # wjob THEN @ + 1 ELSE @]

\* The range loop's receive.
ReceiveCounted(w) ==
    /\ Dequeue(w)
    /\ prog' = [prog EXCEPT
                   !.dequeued = IF wpc'[w] = "got"
                                THEN [@ EXCEPT ![wjob'[w]] = @ + 1]
                                ELSE @]

\* go func() { done <- executeTask(ctx, jobID) }()
MarkRunningCounted(w) ==
    /\ StartJob(w)
    /\ prog' = [prog EXCEPT !.started[wjob[w]] = @ + 1]

\* The return of an executor whose job was marked cancelled.
AbandonedReturnCounted ==
    /\ LateReturn
    /\ prog' = [prog EXCEPT !.lateReturns = @ + 1]

NextLedger ==
    \/ \E id \in JobIDs : Save(id)
    \/ \E id \in JobIDs : SubmitCounted(id)
    \/ StopCall
    \/ StopReturn
    \/ \E w \in Workers : ReceiveCounted(w)
    \/ \E w \in Workers : Begin(w)
    \/ \E w \in Workers : MarkRunningCounted(w)
    \/ \E w \in Workers : ExecReturn(w)
    \/ AbandonedReturnCounted
    \/ \E w \in Workers : Select(w)
    \/ \E w \in Workers : Finish(w)
    \/ Tick

SpecLedger == InitLedger /\ [][NextLedger]_vars

\* -------------------------------------------- BookManager/models/models.go

\* The goroutines (HTTP handlers) that call the Store.
BookCallers == {1, 2}

\* The Store and its callers.
books == prog.books          \* Store.books: ID -> Book
nextID == prog.nextID        \* Store.nextID
bookMu == prog.bookMu        \* Store.mu: the goroutine that holds the lock, or 0
caller == prog.caller        \* each goroutine's position, its arguments and locals
issued == prog.issued        \* the IDs given to a book so far
bookCalls == prog.bookCalls  \* the calls made so far

Book(id, title, author, year) ==
    [ID |-> id, Title |-> title, Author |-> author, Year |-> year]

\* Book{}
NoBook == Book(0, "", "", 0)

\* The books the handlers decode from a request body: the ID is whatever the
\* client sent.
BookInputs == {Book(i, "new", "author", 2020) : i \in {0, 2}}

\* The IDs the handlers take from the URL: of a book NewStore made, of the
\* books Create adds.
BookArgs == {3, 4, 5}

CallerIdle == [pc |-> "idle", op |-> "none", id |-> 0, b |-> NoBook]

\* NewStore()
StoreNew ==
    [name |-> "books",
     books |-> [i \in {1, 2, 3} |->
                   CASE i = 1 -> Book(1, "The Go Programming Language", "Alan A. A. Donovan", 2015)
                     [] i = 2 -> Book(2, "Clean Code", "Robert C. Martin", 2008)
                     [] i = 3 -> Book(3, "The Pragmatic Programmer", "Andrew Hunt", 1999)],
     nextID |-> 4,
     bookMu |-> 0,
     caller |-> [t \in BookCallers |-> CallerIdle],
     issued |-> {1, 2, 3},
     bookCalls |-> 0]

InitBooks == JobQueueIdle /\ prog = StoreNew

\* Faulty variant of BookCanLock: the methods do not take the lock.
BookCanLockAlways == TRUE

\* s.mu.Lock() returns when no goroutine holds the lock (the claim's methods
\* take no read lock).
BookCanLock == bookMu = 0

\* Create: s.mu.Lock()
CreateLock(t, b) ==
    /\ caller[t].pc = "idle"
    /\ bookCalls < MaxCalls
    /\ BookCanLock
    /\ prog' = [prog EXCEPT
                   !.bookCalls = @ + 1,
                   !.bookMu = t,
                   !.caller[t] = [pc |-> "assign", op |-> "Create", id |-> 0, b |-> b]]
    /\ UNCHANGED poolVars

\* Create: b.ID = s.nextID
CreateAssign(t) ==
    /\ caller[t].pc = "assign"
    /\ prog' = [prog EXCEPT
                   !.caller[t].b.ID = nextID,
                   !.caller[t].pc = "incr",
                   !.issued = @ \cup {nextID}]
    /\ UNCHANGED poolVars

\* Create: s.nextID++
CreateIncr(t) ==
    /\ caller[t].pc = "incr"
    /\ prog' = [prog EXCEPT !.nextID = @ + 1, !.caller[t].pc = "store"]
    /\ UNCHANGED poolVars

\* Create: s.books[b.ID] = b
CreateStore(t) ==
    /\ caller[t].pc = "store"
    /\ prog' = [prog EXCEPT
                   !.books = [i \in DOMAIN books \cup {caller[t].b.ID} |->
                                 IF i = caller[t].b.ID THEN caller[t].b ELSE books[i]],
                   !.caller[t].pc = "unlock"]
    /\ UNCHANGED poolVars

\* Update: s.mu.Lock()
BookUpdateLock(t, id, b) ==
    /\ caller[t].pc = "idle"
    /\ bookCalls < MaxCalls
    /\ BookCanLock
    /\ prog' = [prog EXCEPT
                   !.bookCalls = @ + 1,
                   !.bookMu = t,
                   !.caller[t] = [pc |-> "check", op |-> "Update", id |-> id, b |-> b]]
    /\ UNCHANGED poolVars

\* Update: if _, ok := s.books[id]; !ok { return Book{}, false }
BookUpdateCheck(t) ==
    /\ caller[t].pc = "check"
    /\ prog' = [prog EXCEPT
                   !.caller[t].pc = IF caller[t].id \in DOMAIN books THEN "put" ELSE "unlock",
                   !.caller[t].b = IF caller[t].id \in DOMAIN books THEN @ ELSE NoBook]
    /\ UNCHANGED poolVars

\* Update: updated.ID = id; s.books[id] = updated
BookUpdateStore(t) ==
    /\ caller[t].pc = "put"
    /\ prog' = [prog EXCEPT
                   !.books = [i \in DOMAIN books \cup {caller[t].id} |->
                                 IF i = caller[t].id
                                 THEN [caller[t].b EXCEPT !.ID = caller[t].id]
                                 ELSE books[i]],
                   !.caller[t].b.ID = caller[t].id,
                   !.caller[t].pc = "unlock"]
    /\ UNCHANGED poolVars

\* Delete: s.mu.Lock()
BookDeleteLock(t, id) ==
    /\ caller[t].pc = "idle"
    /\ bookCalls < MaxCalls
    /\ BookCanLock
    /\ prog' = [prog EXCEPT
                   !.bookCalls = @ + 1,
                   !.bookMu = t,
                   !.caller[t] = [pc |-> "delete", op |-> "Delete", id |-> id, b |-> NoBook]]
    /\ UNCHANGED poolVars

\* Delete: if _, ok := s.books[id]; !ok { return false }; delete(s.books, id)
BookDelete(t) ==
    /\ caller[t].pc = "delete"
    /\ prog' = [prog EXCEPT
                   !.books = [i \in DOMAIN books \ {caller[t].id} |-> books[i]],
                   !.caller[t].pc = "unlock"]
    /\ UNCHANGED poolVars

\* defer s.mu.Unlock(), and the return.
BookUnlock(t) ==
    /\ caller[t].pc = "unlock"
    /\ prog' = [prog EXCEPT
                   !.bookMu = IF @ = t THEN 0 ELSE @,
                   !.caller[t] = CallerIdle]
    /\ UNCHANGED poolVars

NextBooks ==
    \/ \E t \in BookCallers, b \in BookInputs : CreateLock(t, b)
    \/ \E t \in BookCallers : CreateAssign(t)
    \/ \E t \in BookCallers : CreateIncr(t)
    \/ \E t \in BookCallers : CreateStore(t)
    \/ \E t \in BookCallers, id \in BookArgs, b \in BookInputs : BookUpdateLock(t, id, b)
    \/ \E t \in BookCallers : BookUpdateCheck(t)
    \/ \E t \in BookCallers : BookUpdateStore(t)
    \/ \E t \in BookCallers, id \in BookArgs : BookDeleteLock(t, id)
    \/ \E t \in BookCallers : BookDelete(t)
    \/ \E t \in BookCallers : BookUnlock(t)

SpecBooks == InitBooks /\ [][NextBooks]_vars

\* ---------------------------------------------------------------- claims

StatusOf(s, id) == IF id \in DOMAIN s THEN s[id].Status ELSE "absent"

\* One step of queued -> running -> {completed, failed, cancelled}; a record
\* with a terminal status stays as it is.
LegalStep(s, t, id) ==
    \/ StatusOf(s, id) = "absent" /\ StatusOf(t, id) \in {"absent", StatusQueued}
    \/ StatusOf(s, id) = StatusQueued /\ StatusOf(t, id) \in {StatusQueued, StatusRunning}
    \/ StatusOf(s, id) = StatusRunning /\ StatusOf(t, id) \in {StatusRunning} \cup Terminal
    \/ StatusOf(s, id) \in Terminal /\ t[id] = s[id]

\* C1: a job saved as queued before its identifier is submitted, and accepted
\* by Submit at most once, only ever moves along queued -> running -> terminal:
\* running is never skipped and a terminal record never changes again.
C1_StatusSequence ==
    [][\A id \in JobIDs : accepted'[id] <= 1 => LegalStep(store, store', id)]_vars

C1_Witness ==
    \E id \in DOMAIN store, other \in DOMAIN store :
        /\ id # other
        /\ accepted[id] = 1 /\ accepted[other] = 1
        /\ store[id].Status = StatusCancelled
        /\ store[other].Status = StatusRunning
        /\ life = "stopping"

\* A step of Submit that the state shows (a Submit that is rejected after a
\* rejected one, or panics after a panic, changes nothing at all).
SubmitStep == lastSubmit' # lastSubmit \/ accepted' # accepted

\* Nothing was taken from the queue yet and no worker waits for a value.
NeverDequeued == Len(jobs) = NumAccepted /\ Waiting = {}

\* C2 as stated, for a pool that Stop was not called on: Submit returns false
\* exactly when the queue already holds QueueSize identifiers.
C2_FalseIffFull ==
    [][(SubmitStep /\ ~closed) =>
          (lastSubmit' = "false" <=> Len(jobs) = cfg.QueueSize)]_vars

\* C2 amended: the queue of a pool never holds more than QueueSize identifiers; Submit
\* returns false exactly when Stop was not called, the queue holds QueueSize
\* identifiers and no worker is blocked waiting to dequeue; while nothing is
\* dequeued and Stop was not called, Submit returns true exactly for the first
\* QueueSize calls.
C2_Backpressure ==
    [][/\ life = "failed" \/ Len(jobs') <= cfg.QueueSize
       /\ SubmitStep =>
            /\ lastSubmit' = "false" <=>
                  (~closed /\ Waiting = {} /\ Len(jobs) = cfg.QueueSize)
            /\ (NeverDequeued /\ ~closed) =>
                  (lastSubmit' = "true" <=> NumAccepted < cfg.QueueSize)]_vars

C2_Witness ==
    /\ cfg.NumWorkers = 0
    /\ lastSubmit = "false"
    /\ cfg.QueueSize >= 1
    /\ NumAccepted = cfg.QueueSize
    /\ Len(jobs) = cfg.QueueSize

\* C3: in a pool with at least one worker, when Stop has returned the queue is
\* empty and every accepted identifier that has a record holds a terminal
\* status.
C3_StopDrains ==
    (life = "stopped" /\ cfg.NumWorkers >= 1) =>
        /\ jobs = <<>>
        /\ \A id \in DOMAIN store : accepted[id] > 0 => store[id].Status \in Terminal

C3_Witness ==
    /\ life = "stopped"
    /\ NumAccepted = MaxSubmits
    /\ \E id \in DOMAIN store : accepted[id] > 0 /\ store[id].Status = StatusCancelled

\* The step in which worker w ends processJob for a job that has a record.
Completes(w) ==
    /\ w \in Workers
    /\ wpc[w] \in {"started", "wokenDone", "wokenCtx"}
    /\ wpc'[w] = "loop"
    /\ wjob[w] \in DOMAIN store

\* C4: a job whose executor has not signalled completion before the deadline
\* elapsed is recorded as cancelled with the deadline-exceeded text, also when
\* the executor returns after the deadline.
C4_LateIsCancelled ==
    [][\A w \in AllWorkers :
          (Completes(w) /\ exec[w] # "intime") =>
              /\ store'[wjob[w]].Status = StatusCancelled
              /\ store'[wjob[w]].Error = DeadlineExceeded]_vars

\* C5: a job whose executor signalled completion before the deadline is
\* recorded as completed (no error text) or failed (the executor's error
\* text), never as cancelled.
C5_InTimeIsResult ==
    [][\A w \in AllWorkers :
          (Completes(w) /\ exec[w] = "intime") =>
              IF done[w] = ExecNil
              THEN store'[wjob[w]].Status = StatusCompleted /\ store'[wjob[w]].Error = ""
              ELSE store'[wjob[w]].Status = StatusFailed /\ store'[wjob[w]].Error = done[w]]_vars

\* C6: Submit always ends with true or false.
C6_SubmitReturns == lastSubmit \in {"none", "true", "false"}

\* C7: in a pool that is not stopped, every accepted identifier with a record
\* eventually holds a terminal status, and it is completed when the executor
\* returned success before the deadline.
C7_EventuallyTerminal ==
    /\ \A id \in JobIDs :
          (accepted[id] > 0 /\ id \in DOMAIN store)
              ~> (StatusOf(store, id) \in Terminal \/ life # "running")
    /\ [][\A w \in AllWorkers :
            (Completes(w) /\ exec[w] = "intime" /\ done[w] = ExecNil) =>
                store'[wjob[w]].Status = StatusCompleted]_vars

\* The first half of C7 alone.
C7_TerminalOnly ==
    \A id \in JobIDs :
        (accepted[id] > 0 /\ id \in DOMAIN store)
            ~> (StatusOf(store, id) \in Terminal \/ life # "running")

\* C8: once Stop is called it eventually returns.
C8_StopReturns == (life = "stopping") ~> (life = "stopped")

C8_Witness ==
    /\ life = "stopped"
    /\ abandoned > 0
    /\ NumAccepted = MaxSubmits

\* C9: a Submit that returns false leaves the queue, the workers and every
\* record of the store as they were.
C9_RejectChangesNothing ==
    [][(lastSubmit # "false" /\ lastSubmit' = "false") =>
          UNCHANGED <<jobs, store, wpc, wjob, accepted, closed>>]_vars

C9_Witness ==
    /\ lastSubmit = "false"
    /\ jobs # <<>>
    /\ \A id \in JobIDs : id \in DOMAIN store /\ store[id].Status = StatusQueued

ConfigIsValid(c) == c.NumWorkers >= 1 /\ c.QueueSize >= 0 /\ c.JobTimeout > 0

\* C10: a pool exists only for a valid configuration: at least one worker, a
\* queue capacity of at least 0, a positive deadline.
C10_ConfigValidated == life # "failed" => ConfigIsValid(cfg)

\* C11: the deadline of duration JobTimeout starts when the job enters running:
\* the timestamp written with cancelled is at least JobTimeout later than the
\* timestamp written with running.
C11_DeadlineFromRunning ==
    [][\A w \in AllWorkers :
          (/\ Completes(w)
           /\ accepted[wjob[w]] <= 1
           /\ store[wjob[w]].Status = StatusRunning
           /\ store'[wjob[w]].Status = StatusCancelled) =>
              store'[wjob[w]].UpdatedAt >= store[wjob[w]].UpdatedAt + cfg.JobTimeout]_vars

\* What processJob does keep: cancelled is written no earlier than JobTimeout
\* after context.WithTimeout.
C11_DeadlineFromContext ==
    [][\A w \in AllWorkers :
          (Completes(w) /\ store'[wjob[w]].Status = StatusCancelled) =>
              store'[wjob[w]].UpdatedAt >= deadline[w]]_vars

RunningRecords == {id \in DOMAIN store : store[id].Status = StatusRunning}

\* C13: while every identifier was accepted at most once, the number of
\* records whose status is running never exceeds the number of workers.
C13_AtMostNRunning ==
    (\A id \in JobIDs : accepted[id] <= 1) =>
        Cardinality(RunningRecords) <= cfg.NumWorkers

C13_Witness ==
    /\ cfg.NumWorkers = 1
    /\ Cardinality(RunningRecords) = 1
    /\ \E id \in DOMAIN store : store[id].Status = StatusQueued /\ jobs = <<id>>

IsPrefix(s, t) == Len(s) <= Len(t) /\ s = SubSeq(t, 1, Len(s))

\* The identifiers accepted before id (each identifier accepted at most once).
AcceptedBefore(id) ==
    {order[i] : i \in {j \in 1..Len(order) : \E k \in j+1..Len(order) : order[k] = id}}

\* C12: identifiers leave the channel in the order Submit accepted them, and
\* in a pool with one worker a job enters running only when every job accepted
\* before it holds a terminal status.
C12_FIFO ==
    /\ [](IsPrefix(taken, order))
    /\ [][\A w \in AllWorkers :
            (/\ w \in Workers
             /\ cfg.NumWorkers = 1
             /\ \A id \in JobIDs : accepted[id] <= 1
             /\ StatusOf(store, wjob[w]) # StatusRunning
             /\ StatusOf(store', wjob[w]) = StatusRunning) =>
                \A id \in AcceptedBefore(wjob[w]) :
                    id \in DOMAIN store => store[id].Status \in Terminal]_vars

C12_Witness ==
    /\ cfg.NumWorkers = 1
    /\ cfg.QueueSize = 2
    /\ Len(order) = 2
    /\ taken = order
    /\ order[1] # order[2]
    /\ StatusOf(store, order[1]) \in Terminal
    /\ StatusOf(store, order[2]) = StatusRunning

\* C14: Get returns an independent copy: an assignment to a field of the
\* value Get returned changes no record that a later Get or List returns.
C14_GetReturnsCopy ==
    [][ret'.op = "Mutate" =>
          /\ DOMAIN table' = DOMAIN table
          /\ \A id \in DOMAIN table : Stored(id)' = Stored(id)]_vars

C14_Witness ==
    /\ ret.op = "Mutate"
    /\ ret.id \in DOMAIN table
    /\ got.val.Status = "changed"
    /\ Stored(ret.id).Status = StatusRunning
    /\ TableGet(ret.id).job.val # got.val

\* C15: Get and UpdateStatus with an identifier that is not in the table
\* return the not-found error, create no record and change no record.
C15_NotFound ==
    [][(/\ ncalls' # ncalls
        /\ ret'.op \in {"Get", "UpdateStatus"}
        /\ ret'.id \notin DOMAIN table) =>
            /\ ret'.err = ErrNotFound
            /\ UNCHANGED <<mem, table>>]_vars

C15_Witness ==
    /\ ret.op = "UpdateStatus"
    /\ ret.err = ErrNotFound
    /\ \E id \in DOMAIN table : Stored(id).Status = StatusRunning

\* A snapshot of the table: one copy per identifier ever saved, each equal
\* to the stored record.
IsSnapshot(l) ==
    /\ Len(l) = Cardinality(everSaved)
    /\ \A id \in everSaved : Cardinality({i \in DOMAIN l : l[i].ID = id}) = 1
    /\ \A i \in DOMAIN l : l[i].ID \in DOMAIN table /\ l[i] = Stored(l[i].ID)

\* C16: List returns exactly one copy per distinct identifier ever passed to
\* Save, each equal to the stored record at the time of the call.
C16_ListSnapshot == ret.op = "List" => IsSnapshot(listed)

C16_Witness ==
    /\ ret.op = "List"
    /\ Len(listed) = 2
    /\ Len(mem) > 2

\* C17: a POST /jobs whose identifier Submit accepted is answered with 202
\* and a body whose status is queued.
C17_AcceptedIsQueued == resp.code = 202 => resp.status = StatusQueued

\* C18: the ID that Add assigns was never assigned before, also not to a todo
\* that has been deleted since.
C18_IDsNeverReused ==
    [][Len(todos') > Len(todos) => todos'[Len(todos')].ID \notin usedIDs]_vars

\* What Add does keep: the ID it assigns is the ID of no todo in the slice.
C18_IDsUniqueInStore ==
    \A i, j \in DOMAIN todos : i # j => todos[i].ID # todos[j].ID

\* How often x occurs in the sequence s.
Count(s, x) == Cardinality({i \in DOMAIN s : s[i] = x})

\* C19: Run always returns, with every worker goroutine and the closer ended,
\* and it returns exactly one Result per input URL: the URLs of the results
\* are the input URLs, each as often as it was given.
C19_RunReturnsAll ==
    /\ <>(runpc = "returned")
    /\ [](runpc = "returned" =>
            /\ closer = "done"
            /\ \A g \in Goroutines : gpc[g] = "exited"
            /\ Len(collected) = Len(urls)
            /\ \A x \in URLNames : Count(collected, x) = Count(urls, x))

C19_Witness ==
    /\ runpc = "returned"
    /\ Len(urls) = MaxURLs
    /\ maxWorkers = 1
    /\ collected # urls
    /\ Count(urls, "u") = 1

InFetch == {g \in Goroutines : gpc[g] = "fetch"}

\* C20: the goroutines inside fetchTitle are never more than MaxWorkers, taken
\* as 1 when MaxWorkers is less than 1.
C20_AtMostMaxWorkers ==
    Cardinality(InFetch) <= (IF maxWorkers < 1 THEN 1 ELSE maxWorkers)

C20_Witness ==
    /\ Cardinality(InFetch) = maxWorkers
    /\ maxWorkers = MaxWorkersValue
    /\ \E g \in Goroutines : gpc[g] = "acquire"

\* The workers that hold id between the receive and the start of its executor.
NotYetStarted(id) == {w \in Workers : wjob[w] = id /\ wpc[w] \in {"got", "ctx"}}

\* C21: every acceptance of an identifier is dequeued at most once and, when
\* Stop has returned, exactly once; an executor is started exactly once per
\* dequeue (none is started again after failure or cancellation); and a
\* record of an accepted identifier is changed only by a step of a worker
\* that holds the identifier it dequeued.
C21_ExactlyOnce ==
    /\ [](\A id \in JobIDs :
            /\ dequeued[id] <= accepted[id]
            /\ started[id] = dequeued[id] - Cardinality(NotYetStarted(id))
            /\ life = "stopped" =>
                  dequeued[id] = accepted[id] /\ started[id] = accepted[id])
    /\ [][\A id \in DOMAIN store :
            (accepted[id] > 0 /\ store'[id] # store[id]) =>
                \E w \in AllWorkers :
                    /\ w \in Workers
                    /\ wjob[w] = id
                    /\ wpc[w] \in {"ctx", "started", "wokenDone", "wokenCtx"}
                    /\ wpc'[w] # wpc[w]]_vars

C21_Witness ==
    /\ life = "stopped"
    /\ cfg.NumWorkers = 2
    /\ \A id \in JobIDs : accepted[id] = 1 /\ dequeued[id] = 1 /\ started[id] = 1
    /\ \E id \in DOMAIN store : store[id].Status = StatusFailed
    /\ \E id \in DOMAIN store : store[id].Status = StatusCancelled

\* C22: the return of an executor that was abandoned when its job was marked
\* cancelled changes nothing in the store: every record that is cancelled
\* stays cancelled with the deadline-exceeded text.
C22_LateReturnIgnored ==
    [][lateReturns' > lateReturns =>
          /\ store' = store
          /\ \A id \in DOMAIN store :
                store[id].Status = StatusCancelled =>
                    /\ store'[id].Status = StatusCancelled
                    /\ store'[id].Error = DeadlineExceeded]_vars

C22_Witness ==
    /\ lateReturns > 0
    /\ abandoned = 0
    /\ \E id \in DOMAIN store :
          /\ accepted[id] = 1
          /\ store[id].Status = StatusCancelled
          /\ store[id].Error = DeadlineExceeded

\* C23: a record that holds a terminal status is never set back to running,
\* also when its identifier is accepted by Submit more than once.
C23_TerminalNeverLeft ==
    [][\A id \in DOMAIN store :
          store[id].Status \in Terminal => store'[id].Status # StatusRunning]_vars

\* The executor goroutines that were started and have not returned: those
\* whose worker is still in processJob and those it has left behind.
RunningExecutors == Cardinality({w \in Workers : exec[w] = "running"}) + abandoned

\* C24: the executors that were started and have not returned are never more
\* than the workers, the executors of cancelled jobs included.
C24_AtMostNExecutors == RunningExecutors <= cfg.NumWorkers

\* The records of the jobs whose identifier Submit rejected and the handler
\* has marked: the handler submits an identifier once.
RolledBack == {id \in DOMAIN store : accepted[id] = 0 /\ store[id].Status = StatusFailed}

\* C25: when Submit rejects the identifier of the job the handler has saved,
\* the handler marks the record failed with "queue is full" and answers 503,
\* and the record then stays as it is: no worker changes it.
C25_RejectedStaysFailed ==
    [][/\ (hpc = "saved" /\ hpc' # "saved") =>
             (lastSubmit' = "false" <=> hpc' = "rejected")
       /\ (hpc = "rejected" /\ hpc' # "rejected") =>
             /\ store'[hid].Status = StatusFailed
             /\ store'[hid].Error = "queue is full"
             /\ resp'.code = 503
       /\ \A id \in RolledBack :
             /\ store[id].Error = "queue is full"
             /\ store'[id] = store[id]
             /\ accepted'[id] = 0]_vars

C25_Witness ==
    /\ resp.code = 503
    /\ \E id \in RolledBack, other \in DOMAIN store :
          /\ store[other].Status \in Terminal
          /\ accepted[other] = 1
          /\ store[other].UpdatedAt > store[id].UpdatedAt

\* Worker w is in processJob with an identifier that has no record.
HoldsUnknown(w) == w \in Workers /\ wjob[w] # NoJobID /\ wjob[w] \notin DOMAIN store

\* C26: while a worker processes an identifier that has no record, its
\* UpdateStatus calls create no record and change none, and processJob ends
\* as for any job: the worker is back at the range loop, ready for the next
\* identifier.
C26_UnknownNotFatal ==
    [][\A w \in AllWorkers :
          (HoldsUnknown(w) /\ wpc'[w] # wpc[w]) =>
              /\ store' = store
              /\ wpc'[w] \in {"ctx", "started", "parked", "wokenDone", "wokenCtx", "loop"}
              /\ wjob'[w] # wjob[w] => wpc'[w] = "loop"]_vars

C26_Witness ==
    /\ cfg.NumWorkers = 1
    /\ Len(taken) = 2
    /\ taken[1] \notin DOMAIN store
    /\ taken[2] \in DOMAIN store
    /\ store[taken[2]].Status = StatusCompleted

\* The jobs (identifiers with a record) that Submit accepted and that hold
\* no terminal status yet.
Pending == {id \in DOMAIN store : accepted[id] > 0 /\ store[id].Status \notin Terminal}

\* The identifiers in the hands of a worker, from the receive to the end of
\* processJob.
Held == {wjob[w] : w \in Workers} \ {NoJobID}

\* C27: every accepted job that holds no terminal status yet is in the
\* channel's buffer or in the hands of a worker, which has taken it out of
\* the buffer; so these jobs are never more than NumWorkers + QueueSize.
C27_PendingBound ==
    /\ \A id \in Pending : id \in Held \/ \E i \in DOMAIN jobs : jobs[i] = id
    /\ \A w \in Workers : wpc[w] \in {"loop", "waiting", "exited"} <=> wjob[w] = NoJobID
    /\ Len(jobs) <= cfg.QueueSize
    /\ Cardinality(Pending) <= cfg.NumWorkers + cfg.QueueSize

C27_Witness ==
    /\ Cardinality(Pending) = cfg.NumWorkers + cfg.QueueSize
    /\ lastSubmit = "false"
    /\ \E w \in Workers : wpc[w] = "started" /\ wjob[w] \in Pending

\* Goroutine t has returned from Get or List.
HasRead(t) == th[t].pc = "idle" /\ th[t].op \in {"Get", "List"}

\* C28: every record that Get or List returns is a value the record had
\* between two writes (as Save stored it or as an UpdateStatus left it),
\* never a mixture of two; and when the method returns, what it returns is
\* what the table holds.
C28_ReadsAreWhole ==
    /\ [](\A t \in Threads :
            HasRead(t) =>
                \A i \in DOMAIN th[t].out : th[t].out[i] \in versions[th[t].out[i].ID])
    /\ [][\A t \in Threads :
            (th[t].pc = "runlock" /\ th'[t].pc = "idle") =>
                /\ \A i \in DOMAIN th[t].out : th[t].out[i] = recs[th[t].out[i].ID]
                /\ th[t].op = "List" =>
                      {th[t].out[i].ID : i \in DOMAIN th[t].out} = DOMAIN recs]_vars

C28_Witness ==
    \E t \in Threads, o \in Threads :
        /\ HasRead(t)
        /\ th[t].op = "List"
        /\ Len(th[t].out) = 2
        /\ th[o].pc = "error"
        /\ \E i \in DOMAIN th[t].out :
              /\ th[t].out[i].Status = StatusRunning
              /\ th[t].out[i].UpdatedAt > 0
              /\ th[t].out[i].ID = th[o].ids[1]
              /\ th[t].out[i] # recs[th[o].ids[1]]

\* C29: once Save has returned, the object the caller passed is no way into
\* the table: an assignment to one of its fields changes no stored record,
\* and its status never reads as one that UpdateStatus wrote afterwards.
C29_SavedIsOwned ==
    [][ncalls' # ncalls =>
          /\ ret'.op = "WriteSaved" =>
                \A id \in DOMAIN table : Stored(id)' = Stored(id)
          /\ ret'.op = "ReadSaved" =>
                seen' \notin {u[1] : u \in Updates}]_vars

\* C30: a record that is queued, running or completed has no error text, and
\* a record that is cancelled has the deadline-exceeded text (the records are
\* saved without error text).
C30_ErrorTextByStatus ==
    \A id \in DOMAIN store :
        /\ store[id].Status \in {StatusQueued, StatusRunning, StatusCompleted} =>
              store[id].Error = ""
        /\ store[id].Status = StatusCancelled => store[id].Error = DeadlineExceeded

C30_Witness ==
    \E id \in DOMAIN store, other \in DOMAIN store :
        /\ store[id].Status = StatusCancelled
        /\ store[id].Error = DeadlineExceeded
        /\ store[other].Status = StatusCompleted
        /\ store[other].Error = ""
        /\ store[other].UpdatedAt > 0

\* C31: no worker exits before Stop is called.  A worker that finds the
\* buffer empty and the channel open blocks, and a blocked worker leaves the
\* receive only with an identifier handed to it or because Stop closed the
\* channel.  A worker exits only from the range loop, holding no job, with
\* the channel closed and the buffer empty; the buffer then stays empty.
C31_WorkerExit ==
    /\ [](\A w \in Workers :
            wpc[w] = "exited" =>
                /\ life \in {"stopping", "stopped"}
                /\ closed
                /\ jobs = <<>>
                /\ wjob[w] = NoJobID
                /\ exec[w] = "none")
    /\ [][\A w \in AllWorkers :
            (w \in Workers /\ wpc'[w] # wpc[w]) =>
                /\ (wpc[w] = "loop" /\ jobs = <<>> /\ ~closed) => wpc'[w] = "waiting"
                /\ wpc[w] = "waiting" =>
                      \/ wpc'[w] = "got" /\ wjob'[w] # NoJobID /\ lastSubmit' = "true"
                      \/ wpc'[w] = "loop" /\ ~closed /\ closed'
                /\ wpc'[w] = "exited" =>
                      wpc[w] = "loop" /\ closed /\ jobs = <<>> /\ wjob[w] = NoJobID
                /\ wpc[w] # "exited"]_vars

C31_Witness ==
    /\ cfg.NumWorkers = 2
    /\ life = "stopping"
    /\ \E w \in Workers, v \in Workers :
          /\ wpc[w] = "exited"
          /\ wpc[v] = "started"
          /\ wjob[v] \in DOMAIN store
    /\ \E id \in DOMAIN store : accepted[id] = 1 /\ store[id].Status \in Terminal

\* C32: an executor left behind after its deadline is never blocked on
\* reporting its result.  Whenever one is at the send, its done channel has
\* room, so the send can proceed with no receiver; once executeTask has
\* returned the goroutine delivers the value and ends; and the delivery
\* changes nothing of the pool or the store: the value stays in the channel.
C32_AbandonedNotBlocked ==
    /\ [](\A i \in DOMAIN left :
            /\ left[i].pc = "sending" => left[i].ch = << >>
            /\ left[i].pc = "ended" => Len(left[i].ch) = 1)
    /\ \A i \in 1..MaxSubmits :
          (i \in DOMAIN left /\ left[i].pc = "sending")
              ~> (i \in DOMAIN left /\ left[i].pc = "ended")
    /\ [][\A i \in 1..MaxSubmits :
            (i \in DOMAIN left /\ left[i].pc = "sending" /\ left'[i].pc # "sending") =>
                /\ left'[i].pc = "ended"
                /\ left'[i].ch = <<left[i].val>>
                /\ UNCHANGED poolVars]_vars

C32_Witness ==
    /\ Len(left) = 2
    /\ left[1].pc = "sending"
    /\ left[2].pc = "ended"
    /\ left[2].ch = <<ExecNil>>
    /\ \A id \in JobIDs :
          /\ id \in DOMAIN store
          /\ store[id].Status = StatusCancelled
    /\ \A w \in Workers : wjob[w] = NoJobID

\* The step is a call of UpdateStatus.
IsUpdateStatus == ncalls' # ncalls /\ ret'.op = "UpdateStatus"

\* C33: UpdateStatus on an existing identifier changes only that record's
\* status, error text and update timestamp (to one of the values it was called
\* with and the time of the call): the record's ID, Task and CreatedAt, the
\* identifiers in the table and every other record are unchanged.
C33_UpdateStatusFrame ==
    [][\A id \in JobIDs :
          (IsUpdateStatus /\ ret'.id = id /\ id \in DOMAIN table) =>
              /\ ret'.err = "nil"
              /\ DOMAIN table' = DOMAIN table
              /\ Stored(id)'.ID = Stored(id).ID
              /\ Stored(id)'.Task = Stored(id).Task
              /\ Stored(id)'.CreatedAt = Stored(id).CreatedAt
              /\ <<Stored(id)'.Status, Stored(id)'.Error>> \in Updates
              /\ Stored(id)'.UpdatedAt = tclock
              /\ \A x \in DOMAIN table : x # id => Stored(x)' = Stored(x)]_vars

C33_Witness ==
    /\ ret.op = "UpdateStatus"
    /\ ret.err = "nil"
    /\ DOMAIN table = JobIDs
    /\ Stored(ret.id).ID = ret.id
    /\ Stored(ret.id).Task = "task"
    /\ Stored(ret.id).Status = StatusFailed
    /\ Stored(ret.id).CreatedAt = 0
    /\ Stored(ret.id).UpdatedAt = MaxStamp
    /\ \E x \in DOMAIN table : x # ret.id /\ Stored(x) = NewRecord(x, MaxStamp)

\* C34: with queue capacity 0, Submit returns false whenever no worker is
\* blocked in the receive, it returns true only by handing the identifier to
\* a blocked worker, and the channel never holds an identifier.
C34_ZeroCapacity ==
    [][cfg.QueueSize = 0 =>
          /\ jobs' = <<>>
          /\ SubmitStep =>
                /\ Waiting = {} => lastSubmit' = "false"
                /\ lastSubmit' = "true" =>
                      \E w \in Waiting :
                          /\ wpc'[w] = "got"
                          /\ wjob'[w] # NoJobID
                          /\ accepted'[wjob'[w]] = accepted[wjob'[w]] + 1]_vars

\* What the code does keep with capacity 0: the same, for the calls of Submit
\* made while Stop has not closed the channel.
C34_ZeroCapacityWhileOpen ==
    [][cfg.QueueSize = 0 =>
          /\ jobs' = <<>>
          /\ (SubmitStep /\ ~closed) =>
                /\ Waiting = {} => lastSubmit' = "false"
                /\ lastSubmit' = "true" =>
                      \E w \in Waiting :
                          /\ wpc'[w] = "got"
                          /\ wjob'[w] # NoJobID
                          /\ accepted'[wjob'[w]] = accepted[wjob'[w]] + 1]_vars

\* C35: in the BookManager Store, however the calls of Create, Update and
\* Delete interleave, the ID Create assigns was given to no book before (not
\* by NewStore, not by an earlier Create, whether or not that book was
\* deleted since), the book is stored under it, and a book is always stored
\* under its own ID: Update keeps the key and sets the ID of what it stores
\* to it, whatever ID the caller sent.
C35_BookIDs ==
    /\ [](/\ \A i \in DOMAIN books : books[i].ID = i /\ i \in issued
          /\ bookMu = 0 => \A i \in issued : i < nextID)
    /\ [][\A t \in BookCallers :
            /\ (caller[t].pc = "assign" /\ caller'[t].pc = "incr") =>
                  caller'[t].b.ID \notin issued
            /\ (caller[t].pc = "store" /\ caller'[t].pc = "unlock") =>
                  /\ caller[t].b.ID \notin DOMAIN books
                  /\ books'[caller[t].b.ID] = caller[t].b
                  /\ \A i \in DOMAIN books : books'[i] = books[i]
            /\ (caller[t].pc = "put" /\ caller'[t].pc = "unlock") =>
                  /\ DOMAIN books' = DOMAIN books
                  /\ books'[caller[t].id].ID = caller[t].id
                  /\ \A i \in DOMAIN books : i # caller[t].id => books'[i] = books[i]]_vars

C35_Witness ==
    /\ 4 \in issued
    /\ 4 \notin DOMAIN books
    /\ 5 \in DOMAIN books
    /\ 3 \in DOMAIN books
    /\ books[3].Title = "new"
    /\ \E t \in BookCallers : caller[t].pc = "unlock" /\ caller[t].b = books[5]
    /\ \E t \in BookCallers : caller[t].pc = "idle"

====
